---- MODULE Spec2Model ----
(***************************************************************************)
(* Job board service: the request handlers of                              *)
(* backend/controllers/job_controller.py over the jobs table of            *)
(* backend/models.py, and the tag helpers of the Job model.                *)
(*                                                                         *)
(* Strings are sequences of one-character strings, so that strip(),        *)
(* lower(), split(','), ','.join() and SQL LIKE are computed character by  *)
(* character.  Python None / SQL NULL / JSON null is the value Null.       *)
(* A JSON body is a function from the keys it carries to their values.     *)
(* title, company and location values are JSON strings; the optional       *)
(* fields are JSON strings or null.                                        *)
(***************************************************************************)
EXTENDS Integers, Sequences, FiniteSets, TLC

VARIABLES
    jobs,      \* the jobs table: row i is the Job whose id is i
    now,       \* the clock read by func.now() and datetime.utcnow()
    log,       \* the requests handled so far, each with its response
    self_tags, \* the tags attribute of a Job object (tag helpers)
    tags_arg,  \* the list handed to set_tags_from_list
    tags_ret,  \* <<>> before get_tags_list returns, <<its result>> afterwards
    inflight   \* the create requests being handled concurrently, each with
               \* the position of its handler

vars == <<jobs, now, log, self_tags, tags_arg, tags_ret, inflight>>

----------------------------------------------------------------------------
(* Bounds *)

\* requests handled in one run of Spec
MaxRequests == 3

\* jobs in the table an update request of SpecUpdate finds
MaxSeedJobs == 2

\* jobs in the table a list request of SpecList finds
MaxListJobs == 3

\* entries of the list handed to set_tags_from_list
MaxTags == 3

\* create requests handled concurrently in SpecRace
MaxClients == 2

----------------------------------------------------------------------------
(* Python and SQL string primitives *)

Null == <<"NULL">>

\* bool(v) of a str-or-None value
Truthy(v) == v # Null /\ v # <<>>

IsSpace(c) == c \in {" ", "\t"}

RECURSIVE lstrip(_)
lstrip(s) == IF s # <<>> /\ IsSpace(Head(s)) THEN lstrip(Tail(s)) ELSE s

RECURSIVE rstrip(_)
rstrip(s) ==
    IF s # <<>> /\ IsSpace(s[Len(s)]) THEN rstrip(SubSeq(s, 1, Len(s) - 1)) ELSE s

\* str.strip()
strip(s) == rstrip(lstrip(s))

LowerChar(c) ==
    CASE c = "A" -> "a"
      [] c = "B" -> "b"
      [] c = "F" -> "f"
      [] c = "R" -> "r"
      [] c = "X" -> "x"
      [] OTHER -> c

\* str.lower() and SQL lower()
lower(s) == [i \in 1..Len(s) |-> LowerChar(s[i])]

\* dict.get(k): None when the key is absent
Get(data, k) == IF k \in DOMAIN data THEN data[k] ELSE Null

----------------------------------------------------------------------------
(* ISO date-time strings.  A date string is a sequence of tokens: a        *)
(* calendar date, a time of day, a UTC offset.  A stored DateTime is       *)
(* <<d, t>>, the indices of its date and its time; the column is declared  *)
(* without timezone, so the offset of a parsed value is not stored.        *)

DateTokens == <<"2024-01-01", "2024-01-02">>
TimeTokens == <<"T00:00:00", "T12:30:00">>

IndexOf(tokens, x) == CHOOSE i \in 1..Len(tokens) : tokens[i] = x
IsDateToken(x) == \E i \in 1..Len(DateTokens) : DateTokens[i] = x
IsTimeToken(x) == \E i \in 1..Len(TimeTokens) : TimeTokens[i] = x

\* s.replace("Z", "+00:00")
ReplaceZ(s) == [i \in 1..Len(s) |-> IF s[i] = "Z" THEN "+00:00" ELSE s[i]]

\* datetime.fromisoformat(s) does not raise ValueError
IsIsoFormat(s) ==
    \/ Len(s) = 1 /\ IsDateToken(s[1])
    \/ Len(s) = 2 /\ IsDateToken(s[1]) /\ IsTimeToken(s[2])
    \/ Len(s) = 3 /\ IsDateToken(s[1]) /\ IsTimeToken(s[2]) /\ s[3] = "+00:00"

\* datetime.fromisoformat(s) as the DateTime column keeps it: a date alone
\* is midnight of that date
fromisoformat(s) ==
    <<IndexOf(DateTokens, s[1]), IF Len(s) >= 2 THEN IndexOf(TimeTokens, s[2]) ELSE 1>>

\* posting_date.isoformat() if posting_date else None
isoformat(dt) == IF dt = <<>> THEN Null ELSE <<DateTokens[dt[1]], TimeTokens[dt[2]]>>

----------------------------------------------------------------------------
(* The Job row and its JSON representations *)

allowed_types ==
    { <<"F","u","l","l","-","t","i","m","e">>,
      <<"P","a","r","t","-","t","i","m","e">>,
      <<"C","o","n","t","r","a","c","t">>,
      <<"I","n","t","e","r","n","s","h","i","p">> }

\* mutant: the row stores the trimmed title
Job_trimmed(id, data, posting_date, t) ==
    [ id               |-> id,
      title            |-> strip(data["title"]),
      company          |-> data["company"],
      location         |-> data["location"],
      posting_date     |-> posting_date,
      posting_date_raw |-> Get(data, "posting_date_raw"),
      job_type         |-> Get(data, "job_type"),
      tags             |-> Get(data, "tags"),
      created_at       |-> t,
      updated_at       |-> t ]

Job(id, data, posting_date, t) ==
    [ id               |-> id,
      title            |-> data["title"],
      company          |-> data["company"],
      location         |-> data["location"],
      posting_date     |-> posting_date,
      posting_date_raw |-> Get(data, "posting_date_raw"),
      job_type         |-> Get(data, "job_type"),
      tags             |-> Get(data, "tags"),
      created_at       |-> t,
      updated_at       |-> t ]

\* the job object of the read, update and list responses
JobJson(job) ==
    [ id               |-> job.id,
      title            |-> job.title,
      company          |-> job.company,
      location         |-> job.location,
      posting_date     |-> isoformat(job.posting_date),
      posting_date_raw |-> job.posting_date_raw,
      job_type         |-> job.job_type,
      tags             |-> job.tags ]

\* the job object of the create response (it carries no location)
CreatedJson(job) ==
    [ id               |-> job.id,
      title            |-> job.title,
      company          |-> job.company,
      posting_date     |-> isoformat(job.posting_date),
      posting_date_raw |-> job.posting_date_raw,
      job_type         |-> job.job_type,
      tags             |-> job.tags ]

ErrorJson(msg) == [error |-> msg]

----------------------------------------------------------------------------
(* POST /jobs/add *)

RequiredKeys == {"title", "company", "location"}

\* the keys of the errors dict
create_errors(data) ==
    {k \in RequiredKeys : ~Truthy(Get(data, k)) \/ strip(data[k]) = <<>>}
    \cup (IF Truthy(Get(data, "posting_date"))
             /\ ~IsIsoFormat(ReplaceZ(data["posting_date"]))
          THEN {"posting_date"} ELSE {})
    \cup (IF Truthy(Get(data, "job_type")) /\ data["job_type"] \notin allowed_types
          THEN {"job_type"} ELSE {})

create_posting_date(data) ==
    IF Truthy(Get(data, "posting_date"))
    THEN fromisoformat(ReplaceZ(data["posting_date"]))
    ELSE <<>>

\* mutant: the duplicate check compares the trimmed request values
existing_trimmed(table, data) ==
    {i \in DOMAIN table :
        /\ table[i].title = strip(data["title"])
        /\ table[i].company = strip(data["company"])
        /\ table[i].location = strip(data["location"])}

\* Job.query.filter_by(title=, company=, location=): the rows it selects
existing(table, data) ==
    {i \in DOMAIN table :
        /\ table[i].title = data["title"]
        /\ table[i].company = data["company"]
        /\ table[i].location = data["location"]}

\* the handler as a function of the table, the clock and the JSON body
create_job_controller(table, t, data) ==
    IF create_errors(data) # {}
    THEN [status |-> 400, body |-> ErrorJson("Validation failed"), jobs |-> table]
    ELSE IF existing(table, data) # {}
    THEN [status |-> 409, body |-> ErrorJson("Job already exists"), jobs |-> table]
    ELSE LET new_job == Job(Len(table) + 1, data, create_posting_date(data), t)
         IN  [status |-> 201, body |-> CreatedJson(new_job),
              jobs |-> Append(table, new_job)]

----------------------------------------------------------------------------
(* GET /jobs/<id> *)

get_specfic_job_controller(table, job_id) ==
    IF job_id \notin DOMAIN table
    THEN [status |-> 404, body |-> ErrorJson("Job not found"), jobs |-> table]
    ELSE [status |-> 200, body |-> JobJson(table[job_id]), jobs |-> table]

----------------------------------------------------------------------------
(* PUT /jobs/<id>.  The handler assigns the fields to the session's Job    *)
(* object one after the other and returns at the first invalid one; r is   *)
(* the handler's position: r.status is 200 while it is still running, and  *)
(* r.job is the session's Job object.                                      *)

Reject(r) == [r EXCEPT !.status = 400]

set_title(r, data) ==
    IF r.status # 200 \/ "title" \notin DOMAIN data THEN r
    ELSE IF strip(data["title"]) = <<>> THEN Reject(r)
    ELSE [r EXCEPT !.job.title = data["title"]]

\* mutant: the company of the body is assigned to the title
set_company_as_title(r, data) ==
    IF r.status # 200 \/ "company" \notin DOMAIN data THEN r
    ELSE IF strip(data["company"]) = <<>> THEN Reject(r)
    ELSE [r EXCEPT !.job.title = data["company"]]

set_company(r, data) ==
    IF r.status # 200 \/ "company" \notin DOMAIN data THEN r
    ELSE IF strip(data["company"]) = <<>> THEN Reject(r)
    ELSE [r EXCEPT !.job.company = data["company"]]

set_location(r, data) ==
    IF r.status # 200 \/ "location" \notin DOMAIN data THEN r
    ELSE IF strip(data["location"]) = <<>> THEN Reject(r)
    ELSE [r EXCEPT !.job.location = data["location"]]

\* None.replace raises AttributeError, a bad string ValueError: both are
\* caught by "except Exception"
set_posting_date(r, data) ==
    IF r.status # 200 \/ "posting_date" \notin DOMAIN data THEN r
    ELSE IF data["posting_date"] = Null \/ ~IsIsoFormat(ReplaceZ(data["posting_date"]))
    THEN Reject(r)
    ELSE [r EXCEPT !.job.posting_date = fromisoformat(ReplaceZ(data["posting_date"]))]

set_posting_date_raw(r, data) ==
    IF r.status # 200 \/ "posting_date_raw" \notin DOMAIN data THEN r
    ELSE [r EXCEPT !.job.posting_date_raw = data["posting_date_raw"]]

set_job_type(r, data) ==
    IF r.status # 200 \/ "job_type" \notin DOMAIN data THEN r
    ELSE IF data["job_type"] \notin allowed_types THEN Reject(r)
    ELSE [r EXCEPT !.job.job_type = data["job_type"]]

set_tags(r, data) ==
    IF r.status # 200 \/ "tags" \notin DOMAIN data THEN r
    ELSE [r EXCEPT !.job.tags = data["tags"]]

\* job.updated_at = datetime.utcnow()
set_updated_at(r, t) ==
    IF r.status # 200 THEN r ELSE [r EXCEPT !.job.updated_at = t]

update_fields(job, data, t) ==
    set_updated_at(
        set_tags(
            set_job_type(
                set_posting_date_raw(
                    set_posting_date(
                        set_location(
                            set_company(
                                set_title([status |-> 200, job |-> job], data),
                                data),
                            data),
                        data),
                    data),
                data),
            data),
        t)

\* mutant: the session's Job object is written back however the handler ends
commit_always(table, job_id, r) == [table EXCEPT ![job_id] = r.job]

\* db.session.commit() is reached only when no field was rejected; the
\* session of a request that returned early is discarded with the request
commit(table, job_id, r) ==
    IF r.status = 200 THEN [table EXCEPT ![job_id] = r.job] ELSE table

\* mutant: the body is looked at before the id is resolved
update_job_controller_body_first(table, t, job_id, data) ==
    IF DOMAIN data = {}
    THEN [status |-> 400, body |-> ErrorJson("Validation failed"), jobs |-> table]
    ELSE IF job_id \notin DOMAIN table
    THEN [status |-> 404, body |-> ErrorJson("Job not found"), jobs |-> table]
    ELSE LET r == update_fields(table[job_id], data, t)
         IN  [status |-> r.status,
              body   |-> IF r.status = 200 THEN JobJson(r.job)
                         ELSE ErrorJson("Validation failed"),
              jobs   |-> commit(table, job_id, r)]

update_job_controller(table, t, job_id, data) ==
    IF job_id \notin DOMAIN table
    THEN [status |-> 404, body |-> ErrorJson("Job not found"), jobs |-> table]
    ELSE IF DOMAIN data = {}
    THEN [status |-> 400, body |-> ErrorJson("Validation failed"), jobs |-> table]
    ELSE LET r == update_fields(table[job_id], data, t)
         IN  [status |-> r.status,
              body   |-> IF r.status = 200 THEN JobJson(r.job)
                         ELSE ErrorJson("Validation failed"),
              jobs   |-> commit(table, job_id, r)]

----------------------------------------------------------------------------
(* Request bodies *)

FullTime == <<"F","u","l","l","-","t","i","m","e">>
Contract == <<"C","o","n","t","r","a","c","t">>
Temp     == <<"T","e","m","p">>

\* a JSON object from a set of <<key, value>> pairs
Body(pairs) == [k \in {p[1] : p \in pairs} |-> (CHOOSE p \in pairs : p[1] = k)[2]]

Triple(title) ==
    {<<"title", title>>, <<"company", <<"b">>>>, <<"location", <<"r">>>>}

CreatePayloads ==
    { Body(Triple(<<"a">>)),
      Body(Triple(<<" ", "a">>)),
      Body(Triple(<<"a">>) \cup
           { <<"posting_date", <<"2024-01-01", "T12:30:00">>>>,
             <<"posting_date_raw", <<"2", "d">>>>,
             <<"job_type", FullTime>>,
             <<"tags", <<"x", ",", "y">>>> }),
      Body(Triple(<<"a", " ">>) \cup
           { <<"posting_date", <<"2024-01-02", "T00:00:00", "Z">>>>,
             <<"job_type", <<>>>>,
             <<"tags", Null>> }),
      Body(Triple(<<"c">>) \cup
           { <<"posting_date", <<"2024-01-02">>>>,
             <<"posting_date_raw", <<>>>> }),
      Body(Triple(<<"d">>) \cup {<<"posting_date", <<>>>>, <<"tags", <<>>>>}),
      Body(Triple(<<" ">>)),
      Body({<<"title", <<"a">>>>, <<"location", <<"r">>>>}),
      Body(Triple(<<"a">>) \cup {<<"job_type", Temp>>}),
      Body(Triple(<<"a">>) \cup {<<"posting_date", <<"yesterday">>>>}) }

\* the few update bodies of Spec
RenamePayloads ==
    { Body({<<"title", <<"a">>>>}),
      Body({<<"title", <<"c">>>>, <<"tags", <<"z">>>>}),
      Body({}) }

----------------------------------------------------------------------------
(* Spec: requests handled one after the other, starting from an empty      *)
(* table.  Each request reads the clock, which then advances.              *)

Entry(op, job_id, data, out) ==
    [ req    |-> [op |-> op, id |-> job_id, data |-> data],
      resp   |-> [status |-> out.status, body |-> out.body],
      at     |-> now,
      before |-> jobs ]

Handle(op, job_id, data, out) ==
    /\ jobs' = out.jobs
    /\ now' = now + 1
    /\ log' = Append(log, Entry(op, job_id, data, out))
    /\ UNCHANGED <<self_tags, tags_arg, tags_ret, inflight>>

Init ==
    /\ jobs = <<>>
    /\ now = 0
    /\ log = <<>>
    /\ self_tags = Null
    /\ tags_arg = <<>>
    /\ tags_ret = <<>>
    /\ inflight = <<>>

CreateJob ==
    /\ now < MaxRequests
    /\ \E data \in CreatePayloads :
          Handle("create", 0, data, create_job_controller(jobs, now, data))

ReadJob ==
    /\ now < MaxRequests
    /\ \E job_id \in 1..(Len(jobs) + 1) :
          Handle("read", job_id, Body({}), get_specfic_job_controller(jobs, job_id))

UpdateJob ==
    /\ now < MaxRequests
    /\ \E job_id \in 1..(Len(jobs) + 1), data \in RenamePayloads :
          Handle("update", job_id, data, update_job_controller(jobs, now, job_id, data))

Next == CreateJob \/ ReadJob \/ UpdateJob

Spec == Init /\ [][Next]_vars

----------------------------------------------------------------------------
(* SpecUpdate: one update request, with any combination of keys, against a *)
(* table that create requests have filled.                                 *)

SeedPayloads ==
    { Body(Triple(<<"a">>)),
      Body(Triple(<<"c">>) \cup
           { <<"posting_date", <<"2024-01-01", "T12:30:00">>>>,
             <<"posting_date_raw", <<"2", "d">>>>,
             <<"job_type", FullTime>>,
             <<"tags", <<"x", ",", "y">>>> }),
      Body(Triple(<<" ", "a">>) \cup {<<"job_type", <<>>>>, <<"tags", <<>>>>}) }

\* the tables that up to n create requests, one per tick, leave behind
RECURSIVE TablesAfter(_)
TablesAfter(n) ==
    IF n = 0 THEN {<<>>}
    ELSE LET less == TablesAfter(n - 1)
         IN  less \cup {create_job_controller(tb, Len(tb), data).jobs :
                            tb \in less, data \in SeedPayloads}

MutableKeys ==
    {"title", "company", "location", "posting_date", "posting_date_raw",
     "job_type", "tags"}

UpdateValues(k) ==
    CASE k = "title"            -> {<<"x">>, <<" ", "\t">>}
      [] k = "company"          -> {<<"y">>}
      [] k = "location"         -> {<<"z">>, <<>>}
      [] k = "posting_date"     -> {<<"2024-01-02", "T00:00:00", "Z">>, <<"yesterday">>}
      [] k = "posting_date_raw" -> {<<"1", "w">>}
      [] k = "job_type"         -> {Contract, Temp}
      [] k = "tags"             -> {<<"p", ",", "q">>, Null}

\* the key is absent, or carries one of its values
Choice(k) == {{}} \cup {{<<k, v>>} : v \in UpdateValues(k)}

UpdatePayloads ==
    { Body(c1 \cup c2 \cup c3 \cup c4 \cup c5 \cup c6 \cup c7) :
        c1 \in Choice("title"), c2 \in Choice("company"), c3 \in Choice("location"),
        c4 \in Choice("posting_date"), c5 \in Choice("posting_date_raw"),
        c6 \in Choice("job_type"), c7 \in Choice("tags") }

InitUpdate ==
    /\ jobs \in TablesAfter(MaxSeedJobs)
    /\ now = Len(jobs)
    /\ log = <<>>
    /\ self_tags = Null
    /\ tags_arg = <<>>
    /\ tags_ret = <<>>
    /\ inflight = <<>>

UpdateOnce ==
    /\ log = <<>>
    /\ \E job_id \in 1..(Len(jobs) + 1), data \in UpdatePayloads :
          Handle("update", job_id, data, update_job_controller(jobs, now, job_id, data))

SpecUpdate == InitUpdate /\ [][UpdateOnce]_vars

----------------------------------------------------------------------------
(* Claims about create, read and update *)

\* the last request handled, and the one before it
Last == log[Len(log)]
Prev == log[Len(log) - 1]

\* the three fields of body d equal those of body e
SameTriple(d, e) == \A k \in RequiredKeys : d[k] = e[k]

\* rows of a table whose triple is exactly that of body d
RowsWithTriple(table, d) ==
    {i \in DOMAIN table : \A k \in RequiredKeys : table[i][k] = d[k]}

\* the last two requests were creates of one triple, neither rejected as invalid
TwoCreatesOfOneTriple ==
    /\ Len(log) >= 2
    /\ Prev.req.op = "create" /\ Last.req.op = "create"
    /\ Prev.resp.status # 400 /\ Last.resp.status # 400
    /\ SameTriple(Prev.req.data, Last.req.data)

\* C1 as stated: in any table, of two consecutive valid creates of one triple
\* exactly one answers 201 and stores one record, the other answers 409.
C1_AnyStoreOneSuccess ==
    TwoCreatesOfOneTriple =>
        /\ {Prev.resp.status, Last.resp.status} = {201, 409}
        /\ Len(jobs) = Len(Prev.before) + 1

\* C1 amended: when no stored job has the triple beforehand, the first create
\* answers 201 and stores exactly one record with that triple and the second
\* answers 409 and stores nothing; when a stored job already has the triple,
\* both answer 409 and nothing is stored.
C1_OneSuccessThenConflict ==
    TwoCreatesOfOneTriple =>
        IF RowsWithTriple(Prev.before, Last.req.data) = {}
        THEN /\ Prev.resp.status = 201 /\ Last.resp.status = 409
             /\ Len(jobs) = Len(Prev.before) + 1
             /\ SubSeq(jobs, 1, Len(Prev.before)) = Prev.before
             /\ SameTriple(jobs[Len(jobs)], Last.req.data)
             /\ Last.before = jobs
        ELSE /\ Prev.resp.status = 409 /\ Last.resp.status = 409
             /\ jobs = Prev.before

C1_Witness ==
    /\ TwoCreatesOfOneTriple
    /\ Prev.resp.status = 201 /\ Last.resp.status = 409
    /\ Len(Prev.before) = 1

TrimmedTriple(job) == <<strip(job.title), strip(job.company), strip(job.location)>>

\* C2 as stated: no two stored jobs have the same (title, company, location)
\* after trimming.
C2_UniqueTrimmedTriples ==
    \A i, j \in DOMAIN jobs : i # j => TrimmedTriple(jobs[i]) # TrimmedTriple(jobs[j])

ReadKeys ==
    {"title", "company", "location", "posting_date", "posting_date_raw",
     "job_type", "tags"}

\* the last request read the id that the request before it created
ReadAfterCreate ==
    /\ Len(log) >= 2
    /\ Prev.req.op = "create" /\ Prev.resp.status = 201
    /\ Last.req.op = "read" /\ Last.req.id = Prev.resp.body.id

\* C3 as stated: the job read back right after its creation carries, in each
\* of the seven fields, the value given in the create body (null when absent).
C3_ReadEqualsPayload ==
    ReadAfterCreate =>
        /\ Last.resp.status = 200
        /\ \A k \in ReadKeys : Last.resp.body[k] = Get(Prev.req.data, k)

\* an accepted date string as the service renders it: date and time of day,
\* midnight when the string gave none, no offset
Rendered(s) == <<s[1], IF Len(s) >= 2 THEN s[2] ELSE "T00:00:00">>

\* C3 amended: the job read back right after its creation carries the create
\* body's value (null when absent) in title, company, location,
\* posting_date_raw, job_type and tags; its posting_date is null when the body
\* gave none, null or the empty string, and otherwise the given date-time
\* rendered as date and time of day without offset.
C3_ReadEqualsPayloadUpToDateFormat ==
    ReadAfterCreate =>
        /\ Last.resp.status = 200
        /\ \A k \in ReadKeys \ {"posting_date"} :
              Last.resp.body[k] = Get(Prev.req.data, k)
        /\ Last.resp.body.posting_date =
              IF Truthy(Get(Prev.req.data, "posting_date"))
              THEN Rendered(Prev.req.data["posting_date"])
              ELSE Null

C3_Witness ==
    /\ ReadAfterCreate
    /\ Last.resp.status = 200
    /\ Get(Prev.req.data, "posting_date") = <<"2024-01-02", "T00:00:00", "Z">>
    /\ Last.resp.body.posting_date = <<"2024-01-02", "T00:00:00">>
    /\ Last.resp.body.title = <<"a", " ">>

\* the last request was an update of a job that exists
UpdateOfExisting ==
    /\ log # <<>>
    /\ Last.req.op = "update"
    /\ Last.req.id \in DOMAIN Last.before

\* the column value a key's payload value is stored as
Stored(k, v) ==
    IF k = "posting_date"
    THEN <<IndexOf(DateTokens, v[1]), IF Len(v) >= 2 THEN IndexOf(TimeTokens, v[2]) ELSE 1>>
    ELSE v

\* C4: a successful update gives every mutable field whose key is in the body
\* the body's value, leaves every other mutable field, id and created_at as
\* they were, sets updated_at to the time of the request, and leaves every
\* other row of the table as it was.
C4_UpdateFrame ==
    (UpdateOfExisting /\ Last.resp.status = 200) =>
        LET old == Last.before[Last.req.id]
            new == jobs[Last.req.id]
            data == Last.req.data
        IN  /\ \A k \in MutableKeys :
                  new[k] = IF k \in DOMAIN data THEN Stored(k, data[k]) ELSE old[k]
            /\ new.id = old.id
            /\ new.created_at = old.created_at
            /\ new.updated_at = Last.at
            /\ DOMAIN jobs = DOMAIN Last.before
            /\ \A i \in DOMAIN jobs : i # Last.req.id => jobs[i] = Last.before[i]

\* a successful update carrying only tags, on a table of two jobs
C4_Witness ==
    /\ UpdateOfExisting /\ Last.resp.status = 200
    /\ DOMAIN Last.req.data = {"tags"}
    /\ Len(jobs) = 2
    /\ jobs[Last.req.id].tags # Last.before[Last.req.id].tags
    /\ jobs[Last.req.id].updated_at > Last.before[Last.req.id].updated_at
    /\ jobs[Last.req.id].job_type = FullTime

\* C5: an update of an existing job whose body carries a job_type outside the
\* four allowed values answers 400 and leaves the table as it was, whatever
\* other keys the body carries.
C5_InvalidJobTypeRejected ==
    (/\ UpdateOfExisting
     /\ "job_type" \in DOMAIN Last.req.data
     /\ Last.req.data["job_type"] \notin allowed_types) =>
        /\ Last.resp.status = 400
        /\ jobs = Last.before

\* the body carried valid new title, company, location and posting_date, all
\* assigned to the Job object before the job_type was looked at
C5_Witness ==
    /\ UpdateOfExisting
    /\ {"title", "company", "location", "posting_date", "job_type"}
           \subseteq DOMAIN Last.req.data
    /\ Last.req.data["job_type"] = Temp
    /\ Last.req.data["title"] = <<"x">>
    /\ Last.req.data["location"] = <<"z">>
    /\ Last.req.data["posting_date"] = <<"2024-01-02", "T00:00:00", "Z">>
    /\ Last.before[Last.req.id].title # <<"x">>
    /\ Last.resp.status = 400

\* C6: an update of an id with no stored job answers 404 whatever the body,
\* an update of an existing id with an empty body answers 400, and in both
\* cases the table, every updated_at included, stays as it was.
C6_NotFoundThenEmptyBody ==
    (log # <<>> /\ Last.req.op = "update") =>
        /\ Last.req.id \notin DOMAIN Last.before =>
              Last.resp.status = 404 /\ jobs = Last.before
        /\ (Last.req.id \in DOMAIN Last.before /\ DOMAIN Last.req.data = {}) =>
              Last.resp.status = 400 /\ jobs = Last.before

\* an empty body sent to an id that does not exist: 404 wins
C6_Witness ==
    /\ log # <<>> /\ Last.req.op = "update"
    /\ Last.req.id \notin DOMAIN Last.before
    /\ DOMAIN Last.req.data = {}
    /\ Last.resp.status = 404
    /\ Last.before # <<>>

----------------------------------------------------------------------------
(* GET /jobs.  The query string is a function from the parameters it       *)
(* carries to their values; page and page_size are <<>> when not given     *)
(* and <<n>> otherwise.                                                    *)

DefaultPage == 1
DefaultPageSize == 10
MaxPageSize == 100

\* SQL LIKE: % matches any run of characters, _ any one character
RECURSIVE Like(_, _)
Like(s, pattern) ==
    IF pattern = <<>> THEN s = <<>>
    ELSE IF Head(pattern) = "%"
    THEN Like(s, Tail(pattern)) \/ (s # <<>> /\ Like(Tail(s), pattern))
    ELSE /\ s # <<>>
         /\ Head(pattern) = "_" \/ Head(pattern) = Head(s)
         /\ Like(Tail(s), Tail(pattern))

\* column.ilike(f"%{term}%"): lower(column) LIKE lower('%term%'); a NULL
\* column matches nothing
ilike(column, term) ==
    /\ column # Null
    /\ Like(lower(column), lower(<<"%">> \o term \o <<"%">>))

\* the WHERE clause the filters add up to
Matches(job, args) ==
    /\ Truthy(Get(args, "search")) =>
          ilike(job.title, args["search"]) \/ ilike(job.company, args["search"])
    /\ Truthy(Get(args, "location")) => ilike(job.location, args["location"])
    /\ Truthy(Get(args, "job_type")) =>
          job.job_type # Null /\ job.job_type = args["job_type"]
    /\ Truthy(Get(args, "tag")) => ilike(job.tags, args["tag"])

\* request.args.get("sort", default="posting_date_desc")
sort_of(args) ==
    IF "sort" \in DOMAIN args THEN args["sort"]
    ELSE <<"posting_date_desc">>

\* mutant: every sort but posting_date_desc is ascending
ascending_unless_desc(sort) == sort # <<"posting_date_desc">>

\* the branch of "if sort == 'posting_date_asc'"
ascending(sort) == sort = <<"posting_date_asc">>

\* ORDER BY posting_date: NULL sorts below every date
DateLeq(a, b) ==
    \/ a = <<>>
    \/ b # <<>> /\ (a[1] < b[1] \/ (a[1] = b[1] /\ a[2] <= b[2]))

\* the row sequences ORDER BY may return for the selected rows: rows of equal
\* posting_date come in any order
Orderings(table, ids, sort) ==
    LET n == Cardinality(ids)
    IN  { o \in [1..n -> ids] :
            /\ \A i, j \in 1..n : i # j => o[i] # o[j]
            /\ \A i, j \in 1..n : i < j =>
                  IF ascending(sort)
                  THEN DateLeq(table[o[i]].posting_date, table[o[j]].posting_date)
                  ELSE DateLeq(table[o[j]].posting_date, table[o[i]].posting_date) }

page_of(q) == IF q.page = <<>> THEN DefaultPage ELSE q.page[1]

\* page_size after "if page_size > 100: page_size = 100"
page_size_of(q) ==
    LET given == IF q.page_size = <<>> THEN DefaultPageSize ELSE q.page_size[1]
    IN  IF given > MaxPageSize THEN MaxPageSize ELSE given

\* mutant: the window starts page * page_size rows in
offset_from_page(page, page_size) == page * page_size

offset(page, page_size) == (page - 1) * page_size

\* query.offset(o).limit(l).all() over the ordered rows
Window(rows, o, l) ==
    SubSeq(rows, o + 1, IF o + l < Len(rows) THEN o + l ELSE Len(rows))

\* the handler, given the order the database returned the selected rows in
get_jobs_controller(table, q, order) ==
    LET page == page_of(q)
        page_size == page_size_of(q)
        rows == Window(order, offset(page, page_size), page_size)
    IN  [ status |-> 200,
          body   |-> [ jobs      |-> [i \in 1..Len(rows) |-> JobJson(table[rows[i]])],
                       total     |-> Len(order),
                       page      |-> page,
                       page_size |-> page_size ],
          jobs   |-> table ]

----------------------------------------------------------------------------
(* SpecList: one list request against a table that create requests have    *)
(* filled.                                                                 *)

ListSeedPayloads ==
    { Body({ <<"title", <<"a", "B">>>>, <<"company", <<"c">>>>,
             <<"location", <<"R", "x">>>>,
             <<"posting_date", <<"2024-01-01", "T12:30:00">>>>,
             <<"job_type", FullTime>>, <<"tags", <<"x", ",", "y">>>> }),
      Body({ <<"title", <<"d">>>>, <<"company", <<"A", "b">>>>,
             <<"location", <<"r">>>>,
             <<"posting_date", <<"2024-01-01", "T12:30:00">>>>,
             <<"job_type", Contract>> }),
      Body({ <<"title", <<"a">>>>, <<"company", <<"c">>>>,
             <<"location", <<"_">>>>, <<"tags", <<"X">>>> }),
      Body({ <<"title", <<"d">>>>, <<"company", <<"c">>>>,
             <<"location", <<"r">>>>,
             <<"posting_date", <<"2024-01-02">>>>,
             <<"job_type", FullTime>>, <<"tags", <<>>>> }) }

RECURSIVE ListTablesAfter(_)
ListTablesAfter(n) ==
    IF n = 0 THEN {<<>>}
    ELSE LET less == ListTablesAfter(n - 1)
         IN  less \cup {create_job_controller(tb, Len(tb), data).jobs :
                            tb \in less, data \in ListSeedPayloads}

ListArgValues(k) ==
    CASE k = "search"   -> {<<>>, <<"a">>, <<"B">>, <<"_">>}
      [] k = "location" -> {<<"r">>}
      [] k = "job_type" -> {<<>>, FullTime}
      [] k = "tag"      -> {<<"x">>}
      [] k = "sort"     -> {<<"posting_date_asc">>, <<"newest">>}

ArgChoice(k) == {{}} \cup {{<<k, v>>} : v \in ListArgValues(k)}

ListQueries ==
    { [ args      |-> Body(c1 \cup c2 \cup c3 \cup c4 \cup c5),
        page      |-> p,
        page_size |-> ps ] :
        c1 \in ArgChoice("search"), c2 \in ArgChoice("location"),
        c3 \in ArgChoice("job_type"), c4 \in ArgChoice("tag"),
        c5 \in ArgChoice("sort"),
        p \in {<<>>, <<2>>, <<3>>}, ps \in {<<>>, <<1>>, <<2>>, <<101>>} }

InitList ==
    /\ jobs \in ListTablesAfter(MaxListJobs)
    /\ now = Len(jobs)
    /\ log = <<>>
    /\ self_tags = Null
    /\ tags_arg = <<>>
    /\ tags_ret = <<>>
    /\ inflight = <<>>

ListOnce ==
    /\ log = <<>>
    /\ \E q \in ListQueries :
          LET ids == {i \in DOMAIN jobs : Matches(jobs[i], q.args)}
          IN  \E order \in Orderings(jobs, ids, sort_of(q.args)) :
                 Handle("list", 0, q, get_jobs_controller(jobs, q, order))

SpecList == InitList /\ [][ListOnce]_vars

----------------------------------------------------------------------------
(* Job.set_tags_from_list and Job.get_tags_list *)

\* s.split(sep) for a one-character separator
RECURSIVE split(_, _)
split(s, sep) ==
    IF \A i \in 1..Len(s) : s[i] # sep THEN <<s>>
    ELSE LET i == CHOOSE i \in 1..Len(s) :
                     s[i] = sep /\ \A j \in 1..(i - 1) : s[j] # sep
         IN  <<SubSeq(s, 1, i - 1)>> \o split(SubSeq(s, i + 1, Len(s)), sep)

\* mutant: ' '.join(parts)
RECURSIVE join_spaces(_)
join_spaces(parts) ==
    IF parts = <<>> THEN <<>>
    ELSE IF Len(parts) = 1 THEN parts[1]
    ELSE parts[1] \o <<" ">> \o join_spaces(Tail(parts))

\* ','.join(parts)
RECURSIVE join(_)
join(parts) ==
    IF parts = <<>> THEN <<>>
    ELSE IF Len(parts) = 1 THEN parts[1]
    ELSE parts[1] \o <<",">> \o join(Tail(parts))

\* [tag.strip() for tag in parts if tag.strip()]
RECURSIVE clean(_)
clean(parts) ==
    IF parts = <<>> THEN <<>>
    ELSE IF strip(Head(parts)) # <<>>
    THEN <<strip(Head(parts))>> \o clean(Tail(parts))
    ELSE clean(Tail(parts))

\* the value set_tags_from_list leaves in self.tags
set_tags_from_list(tags_list) ==
    IF tags_list = <<>> THEN Null
    ELSE IF clean(tags_list) # <<>> THEN join(clean(tags_list))
    ELSE Null

get_tags_list(tags) ==
    IF ~Truthy(tags) THEN <<>> ELSE clean(split(tags, ","))

----------------------------------------------------------------------------
(* SpecTags: set_tags_from_list on a list of strings, then get_tags_list   *)

TagStrings ==
    { <<"a">>, <<"b">>, <<" ", "a", "\t">>, <<"a", " ", "b">>, <<>>, <<" ">>,
      <<"a", ",", "b">>, <<",">> }

RECURSIVE ListsUpTo(_)
ListsUpTo(n) ==
    IF n = 0 THEN {<<>>}
    ELSE LET less == ListsUpTo(n - 1)
         IN  less \cup {Append(l, e) : l \in less, e \in TagStrings}

InitTags ==
    /\ jobs = <<>>
    /\ now = 0
    /\ log = <<>>
    /\ self_tags = Null
    /\ tags_arg \in ListsUpTo(MaxTags)
    /\ tags_ret = <<>>
    /\ inflight = <<>>

SetThenGetTags ==
    /\ tags_ret = <<>>
    /\ self_tags' = set_tags_from_list(tags_arg)
    /\ tags_ret' = <<get_tags_list(self_tags')>>
    /\ UNCHANGED <<jobs, now, log, tags_arg, inflight>>

SpecTags == InitTags /\ [][SetThenGetTags]_vars

----------------------------------------------------------------------------
(* Claims about the list request *)

ListHandled == log # <<>> /\ Last.req.op = "list"

\* the rows the filters of the last request select
Selected == {i \in DOMAIN Last.before : Matches(Last.before[i], Last.req.data.args)}

\* a JSON posting_date on the time line: null below every date
\* (<<0, 0>> stands for null)
Rank(iso) ==
    IF iso = Null THEN <<0, 0>>
    ELSE <<IndexOf(DateTokens, iso[1]), IndexOf(TimeTokens, iso[2])>>

RankLeq(a, b) == a[1] < b[1] \/ (a[1] = b[1] /\ a[2] <= b[2])

\* the last request asked for ascending order
AskedAscending ==
    /\ "sort" \in DOMAIN Last.req.data.args
    /\ Last.req.data.args["sort"] = <<"posting_date_asc">>

\* job objects in the order the last request asked for
InAskedOrder(js) ==
    \A i, j \in 1..Len(js) : i < j =>
        IF AskedAscending
        THEN RankLeq(Rank(js[i].posting_date), Rank(js[j].posting_date))
        ELSE RankLeq(Rank(js[j].posting_date), Rank(js[i].posting_date))

\* every way of lining up the selected rows in the asked order
SortedSequences ==
    LET n == Cardinality(Selected)
    IN  { o \in [1..n -> Selected] :
            /\ \A i, j \in 1..n : i # j => o[i] # o[j]
            /\ InAskedOrder([i \in 1..n |-> JobJson(Last.before[o[i]])]) }

GivenPage == IF Last.req.data.page = <<>> THEN 1 ELSE Last.req.data.page[1]
GivenPageSize ==
    IF Last.req.data.page_size = <<>> THEN 10 ELSE Last.req.data.page_size[1]

\* C7: with page >= 1, page_size >= 1 and ps = min(page_size, 100), the jobs
\* returned are the records at positions (page-1)*ps+1 .. page*ps of the
\* selected rows in sorted order (fewer or none when there are fewer rows),
\* the echoed page_size is ps and total is the number of selected rows.
C7_PageWindow ==
    (ListHandled /\ GivenPage >= 1 /\ GivenPageSize >= 1) =>
        LET ps == IF GivenPageSize > 100 THEN 100 ELSE GivenPageSize
            n == Cardinality(Selected)
            first == (GivenPage - 1) * ps + 1
            last == IF GivenPage * ps < n THEN GivenPage * ps ELSE n
            body == Last.resp.body
        IN  /\ Last.resp.status = 200
            /\ body.total = n
            /\ body.page_size = ps
            /\ body.page = GivenPage
            /\ \E o \in SortedSequences :
                  body.jobs = [k \in 1..(IF last >= first THEN last - first + 1 ELSE 0) |->
                                  JobJson(Last.before[o[first + k - 1]])]

\* three rows selected, page_size 2: page 2 holds the one row left, total 3
C7_Witness ==
    /\ ListHandled
    /\ Last.req.data.page = <<2>> /\ Last.req.data.page_size = <<2>>
    /\ Cardinality(Selected) = 3
    /\ Len(Last.resp.body.jobs) = 1
    /\ Last.resp.body.total = 3
    /\ "search" \in DOMAIN Last.req.data.args

\* s occurs in t
Contains(t, s) ==
    \E i \in 0..(Len(t) - Len(s)) : SubSeq(t, i + 1, i + Len(s)) = s

ContainsNoCase(t, s) == t # Null /\ Contains(lower(t), lower(s))

\* a parameter given with a non-empty value
Supplied(k) == k \in DOMAIN Last.req.data.args /\ Last.req.data.args[k] # <<>>

\* the job satisfies every supplied filter, as the claim reads them
SatisfiesFilters(job) ==
    LET args == Last.req.data.args
    IN  /\ Supplied("search") =>
              ContainsNoCase(job.title, args["search"])
              \/ ContainsNoCase(job.company, args["search"])
        /\ Supplied("location") => ContainsNoCase(job.location, args["location"])
        /\ Supplied("job_type") => job.job_type = args["job_type"]
        /\ Supplied("tag") => ContainsNoCase(job.tags, args["tag"])

\* C8 as stated: total counts exactly the stored jobs that satisfy every
\* supplied filter (substring of title or company, substring of location,
\* equal job_type, substring of tags, case-insensitively), and only such
\* jobs are returned.
C8_ConjunctiveSubstringFilters ==
    ListHandled =>
        /\ Last.resp.body.total =
              Cardinality({i \in DOMAIN Last.before : SatisfiesFilters(Last.before[i])})
        /\ \A k \in 1..Len(Last.resp.body.jobs) :
              SatisfiesFilters(Last.before[Last.resp.body.jobs[k].id])

\* C9: the posting dates of the returned jobs are non-decreasing when sort is
\* exactly posting_date_asc and non-increasing when sort is omitted or has
\* any other value (a job without posting date counts as earlier than any).
C9_PostingDateOrder ==
    ListHandled => InAskedOrder(Last.resp.body.jobs)

\* an unrecognised sort value, three jobs returned, dates and a null among them
C9_Witness ==
    /\ ListHandled
    /\ "sort" \in DOMAIN Last.req.data.args
    /\ Last.req.data.args["sort"] = <<"newest">>
    /\ Len(Last.resp.body.jobs) = 3
    /\ Last.resp.body.jobs[1].posting_date = <<"2024-01-02", "T00:00:00">>
    /\ Last.resp.body.jobs[2].posting_date = <<"2024-01-01", "T12:30:00">>
    /\ Last.resp.body.jobs[3].posting_date = Null

----------------------------------------------------------------------------
(* Claims about the tag helpers *)

\* the entries of a list, trimmed, the blank ones left out
RECURSIVE TrimmedNonBlank(_)
TrimmedNonBlank(l) ==
    IF l = <<>> THEN <<>>
    ELSE LET e == strip(Head(l))
         IN  (IF e = <<>> THEN <<>> ELSE <<e>>) \o TrimmedNonBlank(Tail(l))

\* C10 as stated: for every list of strings, set_tags_from_list followed by
\* get_tags_list returns its entries in order, trimmed, blank ones dropped.
C10_TagsRoundTrip ==
    tags_ret # <<>> => tags_ret[1] = TrimmedNonBlank(tags_arg)

HasComma(e) == \E i \in 1..Len(e) : e[i] = ","

\* C10 amended: for every list of strings none of which contains a comma,
\* set_tags_from_list followed by get_tags_list returns its entries in
\* order, trimmed, blank ones dropped.
C10_TagsRoundTripWithoutCommas ==
    (tags_ret # <<>> /\ \A i \in 1..Len(tags_arg) : ~HasComma(tags_arg[i])) =>
        tags_ret[1] = TrimmedNonBlank(tags_arg)

C10_Witness ==
    /\ tags_arg = <<<<" ", "a", "\t">>, <<" ">>, <<"b">>>>
    /\ tags_ret = <<<<<<"a">>, <<"b">>>>>>
    /\ self_tags = <<"a", ",", "b">>

----------------------------------------------------------------------------
(* SpecRace: create requests handled concurrently, one worker each, over   *)
(* one jobs table.  A handler's duplicate check is one query and its       *)
(* insert (db.session.add, db.session.commit) a later statement; other     *)
(* handlers' statements may run in between.  A request is                  *)
(* [data, pc, status, passed]: status is 0 until the handler returns, and  *)
(* passed tells that its duplicate check found no row.                     *)

RacePayloads ==
    { Body(Triple(<<"a">>)),
      Body(Triple(<<"a">>) \cup {<<"job_type", FullTime>>, <<"tags", <<"x">>>>}),
      Body(Triple(<<"c">>)),
      Body(Triple(<<" ">>)) }

\* mutant: the table has a unique key on the triple, and the handler maps
\* the failed insert to the duplicate-conflict answer
insert_unique(table, data, t) ==
    IF existing(table, data) # {}
    THEN [status |-> 409, jobs |-> table]
    ELSE [status |-> 201,
          jobs |-> Append(table, Job(Len(table) + 1, data, create_posting_date(data), t))]

\* db.session.add(new_job); db.session.commit(): the jobs table declares no
\* key but the id, so the row is stored whatever rows are there
insert(table, data, t) ==
    [status |-> 201,
     jobs |-> Append(table, Job(Len(table) + 1, data, create_posting_date(data), t))]

InitRace ==
    /\ jobs = <<>>
    /\ now = 0
    /\ log = <<>>
    /\ self_tags = Null
    /\ tags_arg = <<>>
    /\ tags_ret = <<>>
    /\ inflight = <<>>

\* a request arrives and its handler starts
Arrive ==
    /\ Len(inflight) < MaxClients
    /\ \E data \in RacePayloads :
          inflight' = Append(inflight,
                             [data |-> data, pc |-> "validate", status |-> 0,
                              passed |-> FALSE])
    /\ UNCHANGED <<jobs, now, log, self_tags, tags_arg, tags_ret>>

\* the field checks on the request body
Validate(i) ==
    /\ inflight[i].pc = "validate"
    /\ inflight' =
          IF create_errors(inflight[i].data) # {}
          THEN [inflight EXCEPT ![i].pc = "done", ![i].status = 400]
          ELSE [inflight EXCEPT ![i].pc = "check"]
    /\ UNCHANGED <<jobs, now, log, self_tags, tags_arg, tags_ret>>

\* Job.query.filter_by(...).first() and "if existing"
DuplicateCheck(i) ==
    /\ inflight[i].pc = "check"
    /\ inflight' =
          IF existing(jobs, inflight[i].data) # {}
          THEN [inflight EXCEPT ![i].pc = "done", ![i].status = 409]
          ELSE [inflight EXCEPT ![i].pc = "insert", ![i].passed = TRUE]
    /\ UNCHANGED <<jobs, now, log, self_tags, tags_arg, tags_ret>>

\* the insert and the response
Insert(i) ==
    /\ inflight[i].pc = "insert"
    /\ LET out == insert(jobs, inflight[i].data, now)
       IN  /\ jobs' = out.jobs
           /\ inflight' = [inflight EXCEPT ![i].pc = "done", ![i].status = out.status]
    /\ now' = now + 1
    /\ UNCHANGED <<log, self_tags, tags_arg, tags_ret>>

NextRace ==
    \/ Arrive
    \/ \E i \in DOMAIN inflight : Validate(i) \/ DuplicateCheck(i) \/ Insert(i)

SpecRace == InitRace /\ [][NextRace]_vars

----------------------------------------------------------------------------
(* Claims about concurrent creates *)

\* requests that have returned with the given status
Returned(status) ==
    {i \in DOMAIN inflight : inflight[i].pc = "done" /\ inflight[i].status = status}

\* C11: the insert of a create request never fails on the triple: every
\* request whose duplicate check found no row stores a row of its own and
\* answers 201 whatever rows other requests stored after its check, and 409
\* is answered only by the duplicate check; so two concurrent creates of one
\* triple that both pass the check are both stored.
C11_InsertAfterPassedCheckAlwaysStores ==
    /\ \A i \in DOMAIN inflight :
          /\ (inflight[i].pc = "done" /\ inflight[i].passed) => inflight[i].status = 201
          /\ inflight[i].status = 409 => ~inflight[i].passed
          /\ inflight[i].status = 201 =>
                RowsWithTriple(jobs, inflight[i].data) # {}
    /\ Len(jobs) = Cardinality(Returned(201))

\* two stored jobs share one triple: both requests passed the duplicate
\* check and both answered 201
C11_Witness ==
    /\ Len(jobs) = 2
    /\ SameTriple(jobs[1], jobs[2])
    /\ Len(inflight) = 2
    /\ SameTriple(inflight[1].data, inflight[2].data)
    /\ Returned(201) = {1, 2}
    /\ inflight[1].passed /\ inflight[2].passed

----------------------------------------------------------------------------
(* Job.validate: the fields it reports an error for *)

MaxNameLen == 255
MaxTagsLen == 1000
MaxRawLen == 128

VALID_JOB_TYPES == allowed_types

\* title, company, location: required, and the trimmed value is at most
\* 255 characters long
name_errors(job) ==
    {k \in RequiredKeys :
        \/ ~Truthy(job[k])
        \/ strip(job[k]) = <<>>
        \/ Len(strip(job[k])) > MaxNameLen}

validate(job) ==
    name_errors(job)
    \cup (IF Truthy(job.job_type) /\ job.job_type \notin VALID_JOB_TYPES
          THEN {"job_type"} ELSE {})
    \cup (IF Truthy(job.tags) /\ Len(job.tags) > MaxTagsLen THEN {"tags"} ELSE {})
    \cup (IF Truthy(job.posting_date_raw) /\ Len(job.posting_date_raw) > MaxRawLen
          THEN {"posting_date_raw"} ELSE {})

----------------------------------------------------------------------------
(* SpecStored: create and update requests, handled one after the other     *)
(* from an empty table, whose bodies carry tags up to and beyond the       *)
(* length Job.validate allows.  tags is a Text column, which stores a      *)
(* value of any such length; the values of the String(n) columns fit them. *)

\* a string of n characters c
Repeat(c, n) == [i \in 1..n |-> c]

StoredCreatePayloads ==
    { Body(Triple(<<"a">>)),
      Body(Triple(<<"a", " ">>) \cup {<<"tags", Repeat("t", MaxTagsLen + 1)>>}),
      Body(Triple(<<"c">>) \cup
           {<<"tags", Repeat("t", MaxTagsLen)>>, <<"job_type", <<>>>>}),
      Body(Triple(<<"d">>) \cup
           {<<"job_type", Contract>>,
            <<"posting_date_raw", Repeat("w", MaxRawLen)>>}),
      Body(Triple(<<" ">>)),
      Body(Triple(<<"d">>) \cup {<<"job_type", Temp>>}) }

StoredUpdatePayloads ==
    { Body({<<"tags", Repeat("t", MaxTagsLen + 1)>>}),
      Body({<<"title", <<"c">>>>, <<"job_type", Contract>>}),
      Body({<<"job_type", Temp>>, <<"tags", <<"x">>>>}),
      Body({<<"location", <<"\t">>>>}) }

CreateStored ==
    /\ now < MaxRequests
    /\ \E data \in StoredCreatePayloads :
          Handle("create", 0, data, create_job_controller(jobs, now, data))

UpdateStored ==
    /\ now < MaxRequests
    /\ \E job_id \in 1..(Len(jobs) + 1), data \in StoredUpdatePayloads :
          Handle("update", job_id, data, update_job_controller(jobs, now, job_id, data))

NextStored == CreateStored \/ UpdateStored

SpecStored == Init /\ [][NextStored]_vars

----------------------------------------------------------------------------
(* Claims about the stored jobs *)

\* C12 as stated: after any sequence of create and update requests every
\* stored job passes Job.validate (it reports no field).
C12_StoredJobsPassValidate ==
    \A i \in DOMAIN jobs : validate(jobs[i]) = {}

====
